---- MODULE Spec2Model ----
(***************************************************************************)
(* go-libraw: Processor.ProcessRaw, processFile, clearAndClose and         *)
(* ConvertToImage, over an abstract LibRaw engine (contexts and processed  *)
(* images held in engine memory).                                          *)
(***************************************************************************)
EXTENDS Integers, Sequences, FiniteSets, TLC

\* ------------------------------------------------------------------ bounds

\* Number of goroutines that call ProcessRaw on the shared Processor.
NCalls == 5
\* ConvertToImage is explored for width, height in -1..MaxDim ...
MaxDim == 2
\* ... and data of at most MaxLen bytes.
MaxLen == 6

\* ------------------------------------------------------------- Go integers

UShortMod == 65536
ByteMod == 256

\* A nil error, and the NULL handle.
NoErr == "nil"
Null == 0

Min(S) == CHOOSE x \in S : \A y \in S : x <= y

RECURSIVE Pow2(_)
Pow2(n) == IF n <= 0 THEN 1 ELSE 2 * Pow2(n - 1)

\* x >> s on an unsigned 16-bit value (a Go shift by >= 16 yields 0).
ShiftRight(x, s) == IF s >= 16 THEN 0 ELSE x \div Pow2(s)

\* byte(v): the low eight bits.
ToByte(v) == v % ByteMod

\* width*height*3 evaluated in C.ushort, as make([]byte, width*height*3) does.
AdjustedLen(width, height) == (width * height * 3) % UShortMod

\* --------------------------------------------------------- ConvertToImage

\* if len(data) != expectedSize { return nil, error }
\* (SizeMismatch_short: the check written as "too short" only.)
SizeMismatch_short(n, expectedSize) == n < expectedSize
SizeMismatch(n, expectedSize) == n # expectedSize

\* offset := (y*width + x) * 3 and dstOffset := (y*width + x) * 4
\* (SrcOffset_rgba: the source read with the destination's stride.)
SrcOffset_rgba(x, y, width) == (y * width + x) * 4
SrcOffset(x, y, width) == (y * width + x) * 3

DstOffset(x, y, width) == (y * width + x) * 4

Abs(n) == IF n < 0 THEN -n ELSE n

\* The nil image.Image.
NilImage == [nil |-> TRUE, minX |-> 0, minY |-> 0, maxX |-> 0, maxY |-> 0, Pix |-> <<>>]

\* image.NewRGBA(image.Rect(0, 0, width, height)): Rect orders its corners,
\* Pix has 4*Dx*Dy zero bytes.
NewRGBA(width, height) ==
    [nil  |-> FALSE,
     minX |-> IF width < 0 THEN width ELSE 0,
     minY |-> IF height < 0 THEN height ELSE 0,
     maxX |-> IF width < 0 THEN 0 ELSE width,
     maxY |-> IF height < 0 THEN 0 ELSE height,
     Pix  |-> [k \in 1..(4 * Abs(width) * Abs(height)) |-> 0]]

\* The pixels the two loops visit.
LoopPixels(width, height) ==
    {p \in (0..(width - 1)) \X (0..(height - 1)) : TRUE}

\* Indices (0-based) the loop body reads from data and writes to img.Pix.
ReadsInRange(data, width, height) ==
    \A p \in LoopPixels(width, height) :
        SrcOffset(p[1], p[2], width) + 2 < Len(data)
WritesInRange(img, width, height) ==
    \A p \in LoopPixels(width, height) :
        DstOffset(p[1], p[2], width) + 3 < Len(img.Pix)

\* img.Pix after the loops: byte k-1 holds what the pixel whose dstOffset
\* covers it stored there, 0 where no pixel stored anything.
FillPix(img, data, width, height) ==
    [k \in 1..Len(img.Pix) |->
        LET hit == {p \in LoopPixels(width, height) :
                        /\ DstOffset(p[1], p[2], width) <= k - 1
                        /\ k - 1 <= DstOffset(p[1], p[2], width) + 3}
        IN  IF hit = {} THEN 0
            ELSE LET p  == CHOOSE q \in hit : TRUE
                     ch == (k - 1) - DstOffset(p[1], p[2], width)
                 IN  IF ch = 3 THEN 255
                     ELSE data[SrcOffset(p[1], p[2], width) + ch + 1]]

\* ConvertToImage(data, width, height, bits): (image.Image, error), or a
\* run-time panic when an index leaves its slice.
ConvertToImage(data, width, height, bits) ==
    LET expectedSize == width * height * 3
    IN  IF SizeMismatch(Len(data), expectedSize)
        THEN [kind |-> "err", img |-> NilImage, err |-> "unexpected data size"]
        ELSE LET img == NewRGBA(width, height)
             IN  IF ~(ReadsInRange(data, width, height)
                      /\ WritesInRange(img, width, height))
                 THEN [kind |-> "panic", img |-> NilImage, err |-> NoErr]
                 ELSE [kind |-> "ok",
                       img  |-> [img EXCEPT !.Pix =
                                    FillPix(img, data, width, height)],
                       err  |-> NoErr]


\* ------------------------------------------------------------------- time

\* Days from January 1, year 1 to January 1, 1970 (Go: unixToInternal, in days).
UnixToInternalDays == 1969 * 365 + 1969 \div 4 - 1969 \div 100 + 1969 \div 400
SecondsPerDay == 24 * 60 * 60

\* The zero time.Time: January 1, year 1, 00:00:00 UTC.
ZeroTime == [day |-> 0, sod |-> 0]
IsZero(t) == t.day = 0 /\ t.sod = 0

\* time.Unix(sec, 0), as days since year 1 and the second of the day.
Unix(sec) ==
    [day |-> UnixToInternalDays + sec \div SecondsPerDay,
     sod |-> sec % SecondsPerDay]

\* ImgMetadata{}
ZeroMeta == [CaptureTimestamp |-> 0, CaptureDate |-> ZeroTime]

\* ---------------------------------------- ProcessRaw: bit depth handling

\* for i := 0; i < len(dataBytes); i += 2 { ... adjustedData[i/2] = ... }
RECURSIVE DownsampleLoop(_, _, _, _)
DownsampleLoop(i, adjustedData, dataBytes, bits) ==
    IF ~(i < Len(dataBytes))
    THEN [panic |-> FALSE, data |-> adjustedData]
    ELSE IF i + 1 < Len(dataBytes)
    THEN IF i \div 2 >= Len(adjustedData)
         THEN [panic |-> TRUE, data |-> adjustedData]
         ELSE LET value == dataBytes[i + 1] + dataBytes[i + 2] * ByteMod
              IN  DownsampleLoop(i + 2,
                      [adjustedData EXCEPT ![i \div 2 + 1] =
                          ToByte(ShiftRight(value, bits - 8))],
                      dataBytes, bits)
    ELSE DownsampleLoop(i + 2, adjustedData, dataBytes, bits)

\* The body of ProcessRaw between C.GoBytes and the metadata: the bytes
\* handed to ConvertToImage, then ConvertToImage(dataBytes, w, h, 8).
\* adjLen is len(adjustedData), -1 when bits <= 8 allocates none.
ConvertRaw(dataBytes, width, height, bits) ==
    IF bits > 8
    THEN LET adjusted == DownsampleLoop(0,
                 [k \in 1..AdjustedLen(width, height) |-> 0], dataBytes, bits)
         IN  IF adjusted.panic
             THEN [kind |-> "panic", img |-> NilImage, err |-> NoErr,
                   adjLen |-> Len(adjusted.data)]
             ELSE [adjLen |-> Len(adjusted.data)] @@
                  ConvertToImage(adjusted.data, width, height, 8)
    ELSE [adjLen |-> -1] @@ ConvertToImage(dataBytes, width, height, 8)

\* --------------------------------------------------- files and the engine

\* n 16-bit little-endian samples, all equal to v.
Uniform16(n, v) ==
    [i \in 1..(2 * n) |-> IF i % 2 = 1 THEN v % ByteMod ELSE v \div ByteMod]

\* What the engine makes of a file: the status of open, unpack, process
\* and export, the processed image it exports and the capture timestamp.
RawFile(open, unpack, process, export, w, h, bits, data, ts) ==
    [openRet |-> open, unpackRet |-> unpack, processRet |-> process,
     exportErr |-> export, width |-> w, height |-> h, bits |-> bits,
     data |-> data, timestamp |-> ts]

NoPath == ""

FileTable ==
    ( "nonexistent.NEF" :> RawFile(-100009, 0, 0, 0, 0, 0, 0, <<>>, 0) @@
      "notraw.txt"      :> RawFile(-2, 0, 0, 0, 0, 0, 0, <<>>, 0) @@
      "truncated.NEF"   :> RawFile(0, -100009, 0, 0, 0, 0, 0, <<>>, 0) @@
      "badpipe.NEF"     :> RawFile(0, 0, -4, 0, 0, 0, 0, <<>>, 0) @@
      "noimage.NEF"     :> RawFile(0, 0, 0, 12, 0, 0, 0, <<>>, 0) @@
      "rgb8_2x1.NEF"    :> RawFile(0, 0, 0, 0, 2, 1, 8,
                                   <<10, 20, 30, 40, 50, 60>>, 1700000000) @@
      "rgb8_1x2.CR2"    :> RawFile(0, 0, 0, 0, 1, 2, 8,
                                   <<255, 0, 7, 1, 2, 3>>, 86399) @@
      "rgb8_nodate.NEF" :> RawFile(0, 0, 0, 0, 1, 1, 8, <<9, 8, 7>>, 0) @@
      "rgb8_short.NEF"  :> RawFile(0, 0, 0, 0, 2, 1, 8,
                                   <<10, 20, 30, 40, 50>>, 1700000000) @@
      "rgb8_long.NEF"   :> RawFile(0, 0, 0, 0, 1, 1, 8,
                                   <<1, 2, 3, 4>>, 1700000000) @@
      "rgb16_1x1.NEF"   :> RawFile(0, 0, 0, 0, 1, 1, 16,
                                   Uniform16(3, 4660), 1700000000) @@
      "rgb16_2x1.NEF"   :> RawFile(0, 0, 0, 0, 2, 1, 16,
                                   Uniform16(6, 65535), 0) @@
      "rgb12_1x1.NEF"   :> RawFile(0, 0, 0, 0, 1, 1, 12,
                                   <<52, 2, 255, 15, 0, 0>>, 1) @@
      "rgb16_odd.NEF"   :> RawFile(0, 0, 0, 0, 1, 1, 16,
                                   <<52, 18, 52, 18, 52>>, 1700000000) @@
      "rgb16_short.NEF" :> RawFile(0, 0, 0, 0, 2, 1, 16,
                                   Uniform16(3, 4660), 1700000000) @@
      "rgb16_long.NEF"  :> RawFile(0, 0, 0, 0, 1, 1, 16,
                                   Uniform16(4, 4660), 1700000000) @@
      "rgb16_wide.NEF"  :> RawFile(0, 0, 0, 0, 21846, 1, 16,
                                   Uniform16(21846 * 3, 4660), 1700000000) )

Paths == DOMAIN FileTable

\* The files the concurrent callers share.
ConcPaths == {"rgb8_2x1.NEF", "nonexistent.NEF"}

CallIds == 1..NCalls
CtxHandles == 1..NCalls
ImgHandles == 1..NCalls

ClosedCtx == [live |-> FALSE, owner |-> 0, path |-> NoPath, stage |-> "closed"]
FreedImg == [live |-> FALSE, owner |-> 0, path |-> NoPath]

\* ------------------------------------------------------------- variables

VARIABLES
    processor,  \* the shared Processor: its options
    path,       \* path[c]: the argument of call c of ProcessRaw
    pc,         \* pc[c]: where call c stands
    frame,      \* frame[c]: the locals of call c and its named results (ret)
    result,     \* result[c]: what call c returned (or that it panicked)
    ctxs,       \* engine memory: the libraw_data_t contexts
    imgs,       \* engine memory: the libraw_processed_image_t images
    fault,      \* an engine call was given a handle that is not the caller's live one
    trace,      \* trace[c]: the engine calls of call c, in order
    cin, cout   \* argument and result of a direct call of ConvertToImage

vars == <<processor, path, pc, frame, result, ctxs, imgs, fault, trace, cin, cout>>

ZeroFrame ==
    [proc |-> Null, dataPtr |-> Null, dataSize |-> 0, height |-> 0,
     width |-> 0, bits |-> 0, adjLen |-> -1, panicking |-> FALSE,
     ret |-> [img |-> NilImage, meta |-> ZeroMeta, err |-> NoErr]]

NoResult == [kind |-> "none", img |-> NilImage, meta |-> ZeroMeta, err |-> NoErr]
NoConv == [kind |-> "none", img |-> NilImage, err |-> NoErr]
NoInput == [data |-> <<>>, width |-> 0, height |-> 0, bits |-> 0]

\* NewProcessor(opts)
NewProcessor == [options |-> "ProcessorOptions{}"]

\* ------------------------------------------------------------ the engine

CtxValid(c, h) == h \in CtxHandles /\ ctxs[h].live /\ ctxs[h].owner = c
ImgValid(c, g) == g \in ImgHandles /\ imgs[g].live /\ imgs[g].owner = c

CtxOf(h) == IF h \in CtxHandles THEN ctxs[h] ELSE ClosedCtx

\* A fresh handle is any handle that is not live. Handles are only compared
\* for equality, so the one named after the caller is taken when it is free.
AllocCtx(c) == IF ~ctxs[c].live THEN c ELSE Min({h \in CtxHandles : ~ctxs[h].live})
AllocImg(c) == IF ~imgs[c].live THEN c ELSE Min({g \in ImgHandles : ~imgs[g].live})

Logged(c, op, h) == [trace EXCEPT ![c] = Append(@, [op |-> op, h |-> h])]

\* return nil, ImgMetadata{}, err
ErrorReturn(err) == [img |-> NilImage, meta |-> ZeroMeta, err |-> err]

\* What the caller gets once the deferred calls have run.
Returned(f) ==
    IF f.panicking
    THEN [kind |-> "panic", img |-> NilImage, meta |-> ZeroMeta, err |-> NoErr]
    ELSE [kind |-> IF f.ret.err = NoErr THEN "ok" ELSE "err"] @@ f.ret

\* ------------------------------------------------------------ processFile

\* A variant that takes a context from a pool shared through the Processor
\* when one is live, instead of a context of its own.
LibrawInit_pooled(c) ==
    /\ pc[c] = "init"
    /\ LET pool == {h \in CtxHandles : ctxs[h].live}
           h == IF pool = {} THEN AllocCtx(c) ELSE Min(pool)
       IN  /\ ctxs' = IF pool = {}
                      THEN [ctxs EXCEPT ![h] =
                          [live |-> TRUE, owner |-> c, path |-> NoPath, stage |-> "init"]]
                      ELSE [ctxs EXCEPT ![h].stage = "init"]
           /\ frame' = [frame EXCEPT ![c].proc = h]
           /\ trace' = Logged(c, "libraw_init", h)
           /\ pc' = [pc EXCEPT ![c] = "open"]
    /\ UNCHANGED <<processor, path, result, imgs, fault, cin, cout>>

\* proc = C.libraw_init(0); a nil proc returns the error at once.
LibrawInit(c) ==
    /\ pc[c] = "init"
    /\ \E ok \in BOOLEAN :
        IF ok
        THEN LET h == AllocCtx(c)
             IN  /\ ctxs' = [ctxs EXCEPT ![h] =
                        [live |-> TRUE, owner |-> c, path |-> NoPath, stage |-> "init"]]
                 /\ frame' = [frame EXCEPT ![c].proc = h]
                 /\ trace' = Logged(c, "libraw_init", h)
                 /\ pc' = [pc EXCEPT ![c] = "open"]
                 /\ UNCHANGED result
        ELSE /\ trace' = Logged(c, "libraw_init", Null)
             /\ frame' = [frame EXCEPT ![c].ret = ErrorReturn("failed to initialize libraw")]
             /\ result' = [result EXCEPT ![c] =
                    [kind |-> "err"] @@ ErrorReturn("failed to initialize libraw")]
             /\ pc' = [pc EXCEPT ![c] = "done"]
             /\ UNCHANGED ctxs
    /\ UNCHANGED <<processor, path, imgs, fault, cin, cout>>

\* One status-returning engine call on proc: ret == its status, moved == the
\* context after a successful call; a non-zero status sets err and goes on
\* to C.libraw_close(proc); return.
StatusCall(c, op, ret, moved, errmsg, next) ==
    LET h == frame[c].proc
        valid == CtxValid(c, h)
        status == IF valid THEN ret ELSE -1
    IN  /\ fault' = (fault \/ ~valid)
        /\ trace' = Logged(c, op, h)
        /\ ctxs' = IF valid /\ status = 0 THEN [ctxs EXCEPT ![h] = moved] ELSE ctxs
        /\ IF status # 0
           THEN /\ frame' = [frame EXCEPT ![c].ret = ErrorReturn(errmsg)]
                /\ pc' = [pc EXCEPT ![c] = "errclose"]
           ELSE /\ frame' = frame
                /\ pc' = [pc EXCEPT ![c] = next]
        /\ UNCHANGED <<processor, path, result, imgs, cin, cout>>

\* ret := C.libraw_open_file(proc, cFile)
OpenFile(c) ==
    /\ pc[c] = "open"
    /\ LET x == CtxOf(frame[c].proc)
       IN  StatusCall(c, "libraw_open_file",
               IF x.stage = "init" THEN FileTable[path[c]].openRet ELSE -4,
               [x EXCEPT !.path = path[c], !.stage = "opened"],
               "libraw_open_file error", "unpack")

\* ret = C.libraw_unpack(proc)
Unpack(c) ==
    /\ pc[c] = "unpack"
    /\ LET x == CtxOf(frame[c].proc)
       IN  StatusCall(c, "libraw_unpack",
               IF x.stage = "opened" THEN FileTable[x.path].unpackRet ELSE -4,
               [x EXCEPT !.stage = "unpacked"],
               "libraw_unpack error", "process")

\* ret = C.libraw_dcraw_process(proc)
DcrawProcess(c) ==
    /\ pc[c] = "process"
    /\ LET x == CtxOf(frame[c].proc)
       IN  StatusCall(c, "libraw_dcraw_process",
               IF x.stage = "unpacked" THEN FileTable[x.path].processRet ELSE -4,
               [x EXCEPT !.stage = "processed"],
               "libraw_dcraw_process error", "export")

\* memImg = C.libraw_dcraw_make_mem_image(proc, &makeImgErr), then the
\* descriptor is read from memImg.
MakeMemImage(c) ==
    /\ pc[c] = "export"
    /\ LET h == frame[c].proc
           valid == CtxValid(c, h)
           x == CtxOf(h)
           makeImgErr == IF ~valid \/ x.stage # "processed" THEN -4
                         ELSE FileTable[x.path].exportErr
           memImg == IF makeImgErr = 0 THEN AllocImg(c) ELSE Null
       IN  /\ fault' = (fault \/ ~valid)
           /\ trace' = Logged(c, "libraw_dcraw_make_mem_image", memImg)
           /\ IF makeImgErr # 0 \/ memImg = Null
              THEN /\ frame' = [frame EXCEPT ![c].ret =
                          ErrorReturn("libraw_dcraw_make_mem_image error")]
                   /\ pc' = [pc EXCEPT ![c] = "errclose"]
                   /\ UNCHANGED imgs
              ELSE /\ imgs' = [imgs EXCEPT ![memImg] =
                          [live |-> TRUE, owner |-> c, path |-> x.path]]
                   /\ frame' = [frame EXCEPT
                          ![c].dataPtr = memImg,
                          ![c].dataSize = Len(FileTable[x.path].data),
                          ![c].height = FileTable[x.path].height,
                          ![c].width = FileTable[x.path].width,
                          ![c].bits = FileTable[x.path].bits]
                   /\ pc' = [pc EXCEPT ![c] = "copy"]
    /\ UNCHANGED <<processor, path, result, ctxs, cin, cout>>

\* C.libraw_close(proc); return -- the exit of processFile after a failed
\* step, and ProcessRaw's return nil, ImgMetadata{}, err.
CloseOnError(c) ==
    /\ pc[c] = "errclose"
    /\ LET h == frame[c].proc
           valid == CtxValid(c, h)
       IN  /\ fault' = (fault \/ ~valid)
           /\ trace' = Logged(c, "libraw_close", h)
           /\ ctxs' = IF valid THEN [ctxs EXCEPT ![h] = ClosedCtx] ELSE ctxs
    /\ result' = [result EXCEPT ![c] = Returned(frame[c])]
    /\ pc' = [pc EXCEPT ![c] = "done"]
    /\ UNCHANGED <<processor, path, frame, imgs, cin, cout>>

\* ------------------------------------------------------------- ProcessRaw

\* clearAndClose(proc, memImg), deferred: its three engine calls in order.
\* (_closeFirst: the context closed before the image is freed; _noClear:
\* the image never freed.)
ClearAndCloseSteps_closeFirst == <<"recycle", "close", "clear">>
ClearAndCloseSteps_noClear == <<"recycle", "close">>
ClearAndCloseSteps == <<"clear", "recycle", "close">>

\* Where a call goes when the body of ProcessRaw is left (return or panic).
RunDeferred == ClearAndCloseSteps[1]

\* The step after `step` of clearAndClose; "done" after the last one.
AfterStep(step) ==
    LET i == CHOOSE k \in 1..Len(ClearAndCloseSteps) : ClearAndCloseSteps[k] = step
    IN  IF i < Len(ClearAndCloseSteps) THEN ClearAndCloseSteps[i + 1] ELSE "done"

\* The end of one deferred engine call: the next one, or the return to the caller.
StepDone(c, step) ==
    /\ pc' = [pc EXCEPT ![c] = AfterStep(step)]
    /\ result' = IF AfterStep(step) = "done"
                 THEN [result EXCEPT ![c] = Returned(frame[c])]
                 ELSE result

\* dataBytes := C.GoBytes(&dataPtr.data[0], dataSize), the bit depth handling
\* and ConvertToImage; an error or a panic leaves the body.
CopyAndConvert(c) ==
    /\ pc[c] = "copy"
    /\ LET g == frame[c].dataPtr
           valid == ImgValid(c, g)
           dataBytes == IF valid
                        THEN SubSeq(FileTable[imgs[g].path].data, 1, frame[c].dataSize)
                        ELSE [k \in 1..frame[c].dataSize |-> 0]
       IN  \E conv \in {ConvertRaw(dataBytes, frame[c].width, frame[c].height,
                                   frame[c].bits)} :
               /\ fault' = (fault \/ ~valid)
               /\ trace' = Logged(c, "GoBytes", g)
               /\ frame' = [frame EXCEPT
                      ![c].adjLen = conv.adjLen,
                      ![c].panicking = (conv.kind = "panic"),
                      ![c].ret = IF conv.kind = "err"
                                 THEN ErrorReturn("convert to image: unexpected data size")
                                 ELSE [@ EXCEPT !.img = conv.img]]
               /\ pc' = [pc EXCEPT ![c] = IF conv.kind = "ok" THEN "meta" ELSE RunDeferred]
    /\ UNCHANGED <<processor, path, result, ctxs, imgs, cin, cout>>

\* other := C.libraw_get_imgother(proc); the metadata; return img, meta, nil
GetImgOther(c) ==
    /\ pc[c] = "meta"
    /\ LET h == frame[c].proc
           valid == CtxValid(c, h)
           timestamp == IF valid /\ ctxs[h].path # NoPath
                        THEN FileTable[ctxs[h].path].timestamp ELSE 0
           captureTime == Unix(timestamp)
           meta == [CaptureTimestamp |-> timestamp, CaptureDate |-> captureTime]
       IN  /\ fault' = (fault \/ ~valid)
           /\ trace' = Logged(c, "libraw_get_imgother", h)
           /\ frame' = [frame EXCEPT
                  ![c].ret = [img |-> @.img, meta |-> meta, err |-> NoErr]]
    /\ pc' = [pc EXCEPT ![c] = RunDeferred]
    /\ UNCHANGED <<processor, path, result, ctxs, imgs, cin, cout>>

\* C.libraw_dcraw_clear_mem(memImg)
ClearMem(c) ==
    /\ pc[c] = "clear"
    /\ LET g == frame[c].dataPtr
           valid == ImgValid(c, g)
       IN  /\ fault' = (fault \/ ~valid)
           /\ trace' = Logged(c, "libraw_dcraw_clear_mem", g)
           /\ imgs' = IF valid THEN [imgs EXCEPT ![g] = FreedImg] ELSE imgs
    /\ StepDone(c, "clear")
    /\ UNCHANGED <<processor, path, frame, ctxs, cin, cout>>

\* C.libraw_recycle(proc)
Recycle(c) ==
    /\ pc[c] = "recycle"
    /\ LET h == frame[c].proc
           valid == CtxValid(c, h)
       IN  /\ fault' = (fault \/ ~valid)
           /\ trace' = Logged(c, "libraw_recycle", h)
           /\ ctxs' = IF valid
                      THEN [ctxs EXCEPT ![h].path = NoPath, ![h].stage = "init"]
                      ELSE ctxs
    /\ StepDone(c, "recycle")
    /\ UNCHANGED <<processor, path, frame, imgs, cin, cout>>

\* C.libraw_close(proc)
Close(c) ==
    /\ pc[c] = "close"
    /\ LET h == frame[c].proc
           valid == CtxValid(c, h)
       IN  /\ fault' = (fault \/ ~valid)
           /\ trace' = Logged(c, "libraw_close", h)
           /\ ctxs' = IF valid THEN [ctxs EXCEPT ![h] = ClosedCtx] ELSE ctxs
    /\ StepDone(c, "close")
    /\ UNCHANGED <<processor, path, frame, imgs, cin, cout>>

\* ------------------------------------------------------- specifications

\* The state after NewProcessor, with the calls in `callers` about to run.
InitCalls(callers, paths) ==
    /\ processor = NewProcessor
    /\ path = [c \in CallIds |-> IF c \in callers THEN paths[c] ELSE NoPath]
    /\ pc = [c \in CallIds |-> IF c \in callers THEN "init" ELSE "idle"]
    /\ frame = [c \in CallIds |-> ZeroFrame]
    /\ result = [c \in CallIds |-> NoResult]
    /\ ctxs = [h \in CtxHandles |-> ClosedCtx]
    /\ imgs = [g \in ImgHandles |-> FreedImg]
    /\ fault = FALSE
    /\ trace = [c \in CallIds |-> <<>>]
    /\ cin = NoInput
    /\ cout = NoConv

\* One call of ProcessRaw, on any file.
Init == \E p \in Paths : InitCalls({1}, [c \in CallIds |-> p])

\* NCalls goroutines call ProcessRaw on the same file (TestConcurrentProcessRaw).
InitConc == \E p \in ConcPaths : InitCalls(CallIds, [c \in CallIds |-> p])

Step(c) ==
    \/ LibrawInit(c)
    \/ OpenFile(c)
    \/ Unpack(c)
    \/ DcrawProcess(c)
    \/ MakeMemImage(c)
    \/ CloseOnError(c)
    \/ CopyAndConvert(c)
    \/ GetImgOther(c)
    \/ ClearMem(c)
    \/ Recycle(c)
    \/ Close(c)

Next == \E c \in CallIds : Step(c)

Spec == Init /\ [][Next]_vars

SpecConc == InitConc /\ [][Next]_vars

\* ------------------------------------------- ConvertToImage on its own

\* Byte values of the explored data (both differ from the zero a fresh Pix holds).
ConvBytes == {7, 255}

RECURSIVE SeqsUpTo(_, _)
SeqsUpTo(S, n) ==
    IF n = 0 THEN {<<>>}
    ELSE LET shorter == SeqsUpTo(S, n - 1)
         IN  shorter \cup {Append(s, b) : s \in {t \in shorter : Len(t) = n - 1}, b \in S}

ConvInputs ==
    [data : SeqsUpTo(ConvBytes, MaxLen), width : -1..MaxDim,
     height : -1..MaxDim, bits : {8, 16}]

InitConv ==
    /\ processor = NewProcessor
    /\ path = [c \in CallIds |-> NoPath]
    /\ pc = [c \in CallIds |-> "idle"]
    /\ frame = [c \in CallIds |-> ZeroFrame]
    /\ result = [c \in CallIds |-> NoResult]
    /\ ctxs = [h \in CtxHandles |-> ClosedCtx]
    /\ imgs = [g \in ImgHandles |-> FreedImg]
    /\ fault = FALSE
    /\ trace = [c \in CallIds |-> <<>>]
    /\ cin \in ConvInputs
    /\ cout = NoConv

\* img, err := ConvertToImage(data, width, height, bits)
CallConvert ==
    /\ cout.kind = "none"
    /\ cout' = ConvertToImage(cin.data, cin.width, cin.height, cin.bits)
    /\ UNCHANGED <<processor, path, pc, frame, result, ctxs, imgs, fault, trace, cin>>

NextConv == CallConvert

SpecConv == InitConv /\ [][NextConv]_vars


\* ------------------------------------------------------------------ claims

Finished(c) == pc[c] = "done"

\* Positions in trace[c] of the engine calls named op.
At(c, op) == {i \in 1..Len(trace[c]) : trace[c][i].op = op}

\* The handles call c acquired: contexts from libraw_init, images from
\* libraw_dcraw_make_mem_image.
Acquired(c, op) == {trace[c][i].h : i \in At(c, op)} \ {Null}

\* How often call c handed handle h to the releasing call op.
Releases(c, op, h) == Cardinality({i \in At(c, op) : trace[c][i].h = h})

InitOk(c) == Acquired(c, "libraw_init") # {}

\* The engine steps of processFile all succeed on file p.
EngineOk(p) ==
    /\ FileTable[p].openRet = 0
    /\ FileTable[p].unpackRet = 0
    /\ FileTable[p].processRet = 0
    /\ FileTable[p].exportErr = 0

SequentialResult(p) ==
    LET f == FileTable[p]
        conv == ConvertRaw(f.data, f.width, f.height, f.bits)
        Failed(msg) == [kind |-> "err", img |-> NilImage, meta |-> ZeroMeta, err |-> msg]
    IN  IF f.openRet # 0 THEN Failed("libraw_open_file error")
        ELSE IF f.unpackRet # 0 THEN Failed("libraw_unpack error")
        ELSE IF f.processRet # 0 THEN Failed("libraw_dcraw_process error")
        ELSE IF f.exportErr # 0 THEN Failed("libraw_dcraw_make_mem_image error")
        ELSE IF conv.kind = "err" THEN Failed("convert to image: unexpected data size")
        ELSE IF conv.kind = "panic"
        THEN [kind |-> "panic", img |-> NilImage, meta |-> ZeroMeta, err |-> NoErr]
        ELSE [kind |-> "ok", img |-> conv.img, err |-> NoErr,
              meta |-> [CaptureTimestamp |-> f.timestamp,
                        CaptureDate |-> Unix(f.timestamp)]]

InFlight(c) == pc[c] \notin {"idle", "init", "done"}

\* C2: with NCalls goroutines calling ProcessRaw on the same file through
\* one Processor, under every interleaving: no engine call is ever given a
\* handle that is not the caller's own live one, the calls in flight hold
\* pairwise different contexts, the Processor is never written, and every
\* call that got a context returns what a single sequential call returns
\* (on a file the engine decodes: success, with the same bitmap).
C2_ConcurrentCallsIndependent ==
    /\ ~fault
    /\ processor = NewProcessor
    /\ \A c \in CallIds : InFlight(c) => CtxValid(c, frame[c].proc)
    /\ \A c, d \in CallIds :
          (c # d /\ InFlight(c) /\ InFlight(d)) => frame[c].proc # frame[d].proc
    /\ \A c \in CallIds : (Finished(c) /\ InitOk(c)) =>
          /\ result[c] = SequentialResult(path[c])
          /\ EngineOk(path[c]) => result[c].kind = "ok"

\* All NCalls calls on the decodable file have returned a bitmap.
C2_Witness ==
    \A c \in CallIds :
        /\ Finished(c)
        /\ result[c].kind = "ok"
        /\ Len(result[c].img.Pix) = 8

\* Some step of call c failed: libraw_init, one of the engine steps, or the
\* pixel conversion (an error of ConvertToImage or a panic before it).
StepFailed(c) ==
    \/ ~InitOk(c)
    \/ ~EngineOk(path[c])
    \/ ConvertRaw(FileTable[path[c]].data, FileTable[path[c]].width,
                  FileTable[path[c]].height, FileTable[path[c]].bits).kind # "ok"

\* C3: a call in which a step failed returns a non-nil error with a nil
\* bitmap and zero-value metadata.
C3_FailureReturnsError ==
    \A c \in CallIds : (Finished(c) /\ StepFailed(c)) =>
        /\ result[c].kind = "err"
        /\ result[c].err # NoErr
        /\ result[c].img.nil
        /\ result[c].meta = ZeroMeta

\* C4: ConvertToImage(data, w, h, 8) returns an error and no bitmap whenever
\* len(data) # w*h*3, and returns a bitmap only when len(data) = w*h*3.
C4_SizeMismatchFails ==
    (cout.kind # "none" /\ cin.bits = 8) =>
        /\ Len(cin.data) # cin.width * cin.height * 3 =>
              (cout.kind = "err" /\ cout.img.nil /\ cout.err # NoErr)
        /\ cout.kind = "ok" => Len(cin.data) = cin.width * cin.height * 3
        /\ cout.kind \in {"ok", "err"}

\* A call with too many bytes was rejected.
C4_Witness ==
    /\ cout.kind = "err"
    /\ cin.bits = 8
    /\ cin.width = 1 /\ cin.height = 1
    /\ Len(cin.data) > 3

\* File p exports width*height*3 16-bit samples that are all equal.
UniformSixteen(p) ==
    LET f == FileTable[p]
    IN  /\ EngineOk(p)
        /\ f.bits = 16
        /\ Len(f.data) = f.width * f.height * 3 * 2
        /\ \A i \in 1..Len(f.data) :
              f.data[i] = IF i % 2 = 1 THEN f.data[1] ELSE f.data[2]

\* C5: on 16-bit output whose width*height*3 samples all equal V, the
\* conversion yields a bitmap whose R, G and B bytes all equal V >> 8.
C5_UniformSixteenBit ==
    \A c \in CallIds : (Finished(c) /\ InitOk(c) /\ UniformSixteen(path[c])) =>
        /\ result[c].kind = "ok"
        /\ Len(result[c].img.Pix) =
              4 * FileTable[path[c]].width * FileTable[path[c]].height
        /\ \A k \in 1..Len(result[c].img.Pix) :
              k % 4 # 0 => result[c].img.Pix[k] = FileTable[path[c]].data[2]

\* Bytes of one pixel in the engine's output at the given bit depth.
Stride(bits) == 3 * ((bits + 7) \div 8)

\* C6: when the engine's byte count is not the whole number of pixel strides
\* the image needs, the conversion done for ProcessRaw fails with an error.
C6_BadLengthFails ==
    \A c \in CallIds :
        LET f == FileTable[path[c]]
        IN  (/\ Finished(c) /\ InitOk(c) /\ EngineOk(path[c])
             /\ \/ Len(f.data) % Stride(f.bits) # 0
                \/ Len(f.data) # f.width * f.height * Stride(f.bits))
            => result[c].kind = "err"

\* C7: a successful call on a file without capture timestamp returns
\* CaptureTimestamp = 0 and the zero CaptureDate; CaptureDate is non-zero
\* only when the timestamp is non-zero.
C7_NoTimestampZeroDate ==
    \A c \in CallIds : (Finished(c) /\ result[c].kind = "ok") =>
        /\ FileTable[path[c]].timestamp = 0 =>
              /\ result[c].meta.CaptureTimestamp = 0
              /\ IsZero(result[c].meta.CaptureDate)
        /\ ~IsZero(result[c].meta.CaptureDate) =>
              FileTable[path[c]].timestamp # 0

\* C8: ConvertToImage on 8-bit data of exactly w*h*3 bytes returns a bitmap
\* of w*h pixels in which pixel (x, y) holds the three source bytes at
\* (y*w + x)*3 followed by alpha 255.
C8_EightBitExact ==
    (/\ cout.kind # "none" /\ cin.bits = 8
     /\ cin.width >= 0 /\ cin.height >= 0
     /\ Len(cin.data) = cin.width * cin.height * 3) =>
        /\ cout.kind = "ok"
        /\ Len(cout.img.Pix) = cin.width * cin.height * 4
        /\ \A x \in 0..(cin.width - 1), y \in 0..(cin.height - 1) :
              LET n == y * cin.width + x
              IN  /\ cout.img.Pix[4 * n + 1] = cin.data[3 * n + 1]
                  /\ cout.img.Pix[4 * n + 2] = cin.data[3 * n + 2]
                  /\ cout.img.Pix[4 * n + 3] = cin.data[3 * n + 3]
                  /\ cout.img.Pix[4 * n + 4] = 255

\* Two pixels with different bytes were converted.
C8_Witness ==
    /\ cout.kind = "ok"
    /\ cin.bits = 8
    /\ cin.width = 2 /\ cin.height = 1
    /\ cin.data = <<7, 7, 255, 255, 7, 255>>

\* C9: for output of more than 8 bits per sample the downsampled buffer has
\* width*height*3 bytes (the product as an integer, not modulo 2^16), and
\* output of width*height*3 two-byte samples is converted without a write
\* outside that buffer.
C9_AdjustedLength ==
    \A c \in CallIds : (frame[c].bits > 8 /\ frame[c].adjLen # -1) =>
        /\ frame[c].adjLen = frame[c].width * frame[c].height * 3
        /\ frame[c].dataSize = frame[c].width * frame[c].height * 3 * 2 =>
              ~frame[c].panicking

====
